---- MODULE Spec2Model ----
(***************************************************************************)
(* Model of the flag display application (Zip.cpp, Zipu1.h, Zipu1.cpp).    *)
(*                                                                         *)
(* One TForm1 per process.  A process constructs the form (the constructor *)
(* runs InitializeApplication synchronously), then serves button clicks    *)
(* from the message loop, and finally destroys the form.  All processes    *)
(* run the same executable, so they share the embedded archive, the        *)
(* system tick counter and the file system.                                *)
(*                                                                         *)
(* Paths are sequences of segments; a segment is a record [n, x] of a name *)
(* and an extension.  The file system is the pair fsDirs, fsFiles of       *)
(* resolved absolute paths.                                                *)
(***************************************************************************)
EXTENDS Integers, Sequences, FiniteSets, TLC

VARIABLES
    archive,          \* the entries of the ZIP embedded as resource 1
    now,              \* GetTickCount()
    fsDirs,           \* directories on disk (the root is implicit)
    fsFiles,          \* regular files on disk
    pc,               \* per process: position in the form's life
    tempDirectory,    \* TForm1::tempDirectory  (<<>> is the empty string)
    flagFiles,        \* TForm1::flagFiles
    randomGenerator,  \* TForm1::randomGenerator: seed and number of draws
    entryIdx,         \* loop variable i of ExtractZipToTemp (1-based here)
    index,            \* ShowRandomFlag's local index of the last draw
    LabelStatus,      \* LabelStatus->Caption
    LabelFlagName,    \* LabelFlagName->Caption
    Picture,          \* ImageFlag->Picture: the loaded file, <<>> for NULL
    shown,            \* the ShowMessage dialogs shown so far
    cleanup,          \* what the last CleanupTempFiles did
    clicks            \* ButtonRandomClick calls waiting in ProcessMessages

vars == <<archive, now, fsDirs, fsFiles, pc, tempDirectory, flagFiles,
          randomGenerator, entryIdx, index, LabelStatus, LabelFlagName,
          Picture, shown, cleanup, clicks>>

formVars == <<tempDirectory, flagFiles, randomGenerator, entryIdx, index,
              LabelStatus, LabelFlagName, Picture, shown, cleanup, clicks>>

----------------------------------------------------------------------------
(* Bounds of the model *)

MaxEntries == 2     \* entries in the embedded archive
MaxTick == 1        \* largest value of the tick counter
MaxDraws == 3       \* draws from the generator per form
MaxNested == 1      \* click handlers interrupted by a further click

(* The processes running the executable.  Spec runs the first one alone,   *)
(* SpecConc runs both.                                                     *)
Inst == {1, 2}
Solo == {1}

----------------------------------------------------------------------------
(* Paths *)

Seg(n, x) == [n |-> n, x |-> x]
Up == Seg("..", "")
NoPath == <<>>

\* TPath::GetTempPath()
TempPath == <<Seg("Temp", "")>>

\* the directories that exist before any process starts
PreExisting == {TempPath}

RECURSIVE Resolve(_)
\* what the file system makes of a path: a ".." segment steps to the parent
Resolve(p) ==
    IF p = <<>> THEN <<>>
    ELSE LET front == Resolve(SubSeq(p, 1, Len(p) - 1))
             last == p[Len(p)]
         IN  IF last = Up
             THEN (IF front = <<>> THEN <<>>
                   ELSE SubSeq(front, 1, Len(front) - 1))
             ELSE Append(front, last)

Prefixes(p) == {SubSeq(p, 1, k) : k \in 1..Len(p)}

\* p lies strictly below directory d
IsUnder(p, d) == Len(p) > Len(d) /\ SubSeq(p, 1, Len(d)) = d

\* TDirectory::Exists(p)
DirExists(p, dirs) == Resolve(p) = <<>> \/ Resolve(p) \in dirs

\* TDirectory::CreateDirectory(p): creates the missing ancestors too
CreateDirectory(p, dirs) == dirs \cup Prefixes(Resolve(p))

\* an archive entry name: rooted ("/abs/z.gif"), its segments, and whether
\* it names a directory ("sub/")
Entry(rooted, segs, isDir) == [rooted |-> rooted, segs |-> segs, isDir |-> isDir]

\* TPath::Combine(tempDirectory, fileName): a rooted second path wins
Combine(dir, e) == IF e.rooted THEN e.segs ELSE dir \o e.segs

\* TPath::GetDirectoryName(fullPath): drops the file name; a name ending in
\* a separator only loses the separator
GetDirectoryName(fullPath, isDir) ==
    IF isDir \/ fullPath = <<>> THEN fullPath
    ELSE SubSeq(fullPath, 1, Len(fullPath) - 1)

----------------------------------------------------------------------------
(* The embedded archive *)

EntryPool ==
    { Entry(FALSE, <<Seg("flag1", "png")>>, FALSE),
      Entry(FALSE, <<Seg("sub", ""), Seg("flag2", "jpg")>>, FALSE),
      Entry(FALSE, <<Seg("sub", "")>>, TRUE),
      Entry(FALSE, <<Seg("notes", "txt")>>, FALSE),
      Entry(FALSE, <<Seg("flag3", "PNG")>>, FALSE),
      Entry(FALSE, <<Up, Seg("x", "png")>>, FALSE),
      Entry(FALSE, <<Up, Seg("evil", ""), Seg("y", "png")>>, FALSE),
      Entry(TRUE, <<Seg("abs", ""), Seg("z", "gif")>>, FALSE) }

\* archives: up to MaxEntries distinct entries, in archive order
Archives ==
    UNION { { a \in [1..n -> EntryPool] :
                \A j, k \in 1..n : j # k => a[j] # a[k] } : n \in 0..MaxEntries }

\* an entry whose destination escapes the directory it is extracted into
Unsafe(e) == e.rooted \/ Up \in {e.segs[k] : k \in 1..Len(e.segs)}

----------------------------------------------------------------------------
(* Captions and messages *)

Status(k, pos, total) == [k |-> k, pos |-> pos, total |-> total]
StatusReady == Status("Status: Ready", 0, 0)
StatusExtracting == Status("Status: Extracting resource...", 0, 0)
StatusLoaded(n) == Status("Status: Successfully loaded", 0, n)
StatusNoImages == Status("Status: No image files found", 0, 0)
StatusFailed == Status("Status: Resource extraction failed", 0, 0)
StatusRefreshing == Status("Status: Refreshing...", 0, 0)
StatusDisplaying(pos, total) == Status("Status: Displaying", pos, total)

FlagName(k, n) == [k |-> k, name |-> n]
NameDesign == FlagName("Flag Name", "")
NameLoading == FlagName("Loading...", "")
NameNone == FlagName("No flag images available", "")
NameLoadFailed == FlagName("Image loading failed", "")
NameFlag(n) == FlagName("Flag: ", n)

MsgNoResource == "No suitable resource found in the executable"
MsgLoadResource == "Unable to load resource"
MsgInvalidResource == "Invalid resource data"
MsgMkdir == "Unable to create temporary directory"
MsgTempPath == "Error creating temporary directory: "
MsgZip == "Error extracting ZIP file: "
MsgScan == "Error searching for image files: "
MsgImage == "Error displaying image: "

----------------------------------------------------------------------------
Init ==
    /\ archive \in Archives
    /\ now = 0
    /\ fsDirs = PreExisting
    /\ fsFiles = {}
    /\ pc = [i \in Inst |-> "new"]
    /\ tempDirectory = [i \in Inst |-> NoPath]
    /\ flagFiles = [i \in Inst |-> <<>>]
    /\ randomGenerator = [i \in Inst |-> [seed |-> 5489, draws |-> 0]]
    /\ entryIdx = [i \in Inst |-> 1]
    /\ index = [i \in Inst |-> -1]
    /\ LabelStatus = [i \in Inst |-> StatusReady]
    /\ LabelFlagName = [i \in Inst |-> NameDesign]
    /\ Picture = [i \in Inst |-> NoPath]
    /\ shown = [i \in Inst |-> {}]
    /\ cleanup = [i \in Inst |-> "none"]
    /\ clicks = [i \in Inst |-> 0]

\* the system clock advances
Tick ==
    /\ now < MaxTick
    /\ now' = now + 1
    /\ UNCHANGED <<archive, fsDirs, fsFiles, pc>>
    /\ UNCHANGED formVars

\* the constructor without randomGenerator.seed(GetTickCount())
ConstructorUnseeded(i) ==
    /\ pc[i] = "new"
    /\ tempDirectory' = [tempDirectory EXCEPT ![i] = NoPath]
    /\ LabelStatus' = [LabelStatus EXCEPT ![i] = StatusExtracting]
    /\ pc' = [pc EXCEPT ![i] = "resource"]
    /\ UNCHANGED <<archive, now, fsDirs, fsFiles, flagFiles, entryIdx, index,
                   LabelFlagName, Picture, shown, cleanup, clicks,
                   randomGenerator>>

\* TForm1::TForm1 up to the call of ExtractResourceAsZip
Constructor(i) ==
    /\ pc[i] = "new"
    /\ randomGenerator' = [randomGenerator EXCEPT ![i] = [seed |-> now, draws |-> 0]]
    /\ tempDirectory' = [tempDirectory EXCEPT ![i] = NoPath]
    /\ LabelStatus' = [LabelStatus EXCEPT ![i] = StatusExtracting]
    /\ pc' = [pc EXCEPT ![i] = "resource"]
    /\ UNCHANGED <<archive, now, fsDirs, fsFiles, flagFiles, entryIdx, index,
                   LabelFlagName, Picture, shown, cleanup, clicks>>

\* InitializeApplication's else branch: ExtractResourceAsZip returned false
\* after showing msg; the constructor returns
InitFailed(i, msg) ==
    /\ shown' = [shown EXCEPT ![i] = @ \cup {msg}]
    /\ LabelStatus' = [LabelStatus EXCEPT ![i] = StatusFailed]
    /\ pc' = [pc EXCEPT ![i] = "running"]

\* ReadResource without the return after "Invalid resource data": the
\* extraction goes on with the unusable resource
ReadResourceNoReturn(i) ==
    /\ pc[i] = "resource"
    /\ \E r \in {"ok", "notfound", "loadfail", "invalid"} :
         CASE r = "notfound" -> InitFailed(i, MsgNoResource)
           [] r = "loadfail" -> InitFailed(i, MsgLoadResource)
           [] r = "invalid" ->
                /\ shown' = [shown EXCEPT ![i] = @ \cup {MsgInvalidResource}]
                /\ pc' = [pc EXCEPT ![i] = "mkdir"]
                /\ UNCHANGED LabelStatus
           [] OTHER -> /\ pc' = [pc EXCEPT ![i] = "mkdir"]
                       /\ UNCHANGED <<shown, LabelStatus>>
    /\ UNCHANGED <<archive, now, fsDirs, fsFiles, tempDirectory, flagFiles,
                   randomGenerator, entryIdx, index, LabelFlagName, Picture,
                   cleanup, clicks>>

\* ExtractResourceAsZip: FindResource, LoadResource, LockResource,
\* SizeofResource
ReadResource(i) ==
    /\ pc[i] = "resource"
    /\ \E r \in {"ok", "notfound", "loadfail", "invalid"} :
         CASE r = "notfound" -> InitFailed(i, MsgNoResource)
           [] r = "loadfail" -> InitFailed(i, MsgLoadResource)
           [] r = "invalid" -> InitFailed(i, MsgInvalidResource)
           [] OTHER -> /\ pc' = [pc EXCEPT ![i] = "mkdir"]
                       /\ UNCHANGED <<shown, LabelStatus>>
    /\ UNCHANGED <<archive, now, fsDirs, fsFiles, tempDirectory, flagFiles,
                   randomGenerator, entryIdx, index, LabelFlagName, Picture,
                   cleanup, clicks>>

\* the directory name ExtractZipToTemp builds from the tick counter
TempDirName(tick) == TempPath \o <<Seg("FlagImages_" \o ToString(tick), "")>>

\* ExtractZipToTemp up to the creation of the directory
CreateWorkspace(i) ==
    /\ pc[i] = "mkdir"
    /\ \E r \in {"ok", "nopath", "nodir"} :
         IF r = "nopath"
         THEN \* GetTempPath raised: the outer handler
              /\ InitFailed(i, MsgTempPath)
              /\ UNCHANGED <<tempDirectory, fsDirs>>
         ELSE /\ tempDirectory' = [tempDirectory EXCEPT ![i] = TempDirName(now)]
              /\ IF r = "ok"
                 THEN /\ fsDirs' = CreateDirectory(TempDirName(now), fsDirs)
                      /\ pc' = [pc EXCEPT ![i] = "open"]
                      /\ UNCHANGED <<shown, LabelStatus>>
                 ELSE \* CreateDirectory raised or made nothing
                      /\ ~DirExists(TempDirName(now), fsDirs)
                      /\ InitFailed(i, MsgMkdir)
                      /\ UNCHANGED fsDirs
    /\ UNCHANGED <<archive, now, fsFiles, flagFiles, randomGenerator,
                   entryIdx, index, LabelFlagName, Picture, cleanup, clicks>>

\* zipFile->Open(zipStream, zmRead)
OpenZip(i) ==
    /\ pc[i] = "open"
    /\ \E ok \in BOOLEAN :
         IF ok
         THEN /\ entryIdx' = [entryIdx EXCEPT ![i] = 1]
              /\ pc' = [pc EXCEPT ![i] = IF Len(archive) = 0 THEN "scan" ELSE "extract"]
              /\ UNCHANGED <<shown, LabelStatus>>
         ELSE /\ InitFailed(i, MsgZip)
              /\ UNCHANGED entryIdx
    /\ UNCHANGED <<archive, now, fsDirs, fsFiles, tempDirectory, flagFiles,
                   randomGenerator, index, LabelFlagName, Picture, cleanup, clicks>>

\* TZipFile::Extract(fileName, path) with its default CreateSubdirs = true:
\* the destination is path combined with the entry's whole name; its
\* directory is created; a directory entry writes no file
ZipExtract(e, path, dirs, files) ==
    LET target == Combine(path, e)
    IN  [dirs |-> CreateDirectory(GetDirectoryName(target, e.isDir), dirs),
         files |-> IF e.isDir THEN files ELSE files \cup {Resolve(target)}]

\* one round of ExtractZipToTemp's loop over the entries
ExtractEntry(i) ==
    /\ pc[i] = "extract"
    /\ LET e == archive[entryIdx[i]]
           fullPath == Combine(tempDirectory[i], e)
           dir == GetDirectoryName(fullPath, e.isDir)
           made == IF DirExists(dir, fsDirs) THEN fsDirs
                   ELSE CreateDirectory(dir, fsDirs)
           out == ZipExtract(e, dir, made, fsFiles)
       IN  \E r \in {"ok", "mkdirfail", "extractfail"} :
             CASE r = "ok" ->
                    /\ fsDirs' = out.dirs
                    /\ fsFiles' = out.files
                    /\ entryIdx' = [entryIdx EXCEPT ![i] = @ + 1]
                    /\ pc' = [pc EXCEPT ![i] =
                                IF entryIdx[i] < Len(archive) THEN "extract" ELSE "scan"]
                    /\ UNCHANGED <<shown, LabelStatus>>
               [] r = "mkdirfail" ->
                    \* CreateDirectory(dir) raised
                    /\ ~DirExists(dir, fsDirs)
                    /\ InitFailed(i, MsgZip)
                    /\ UNCHANGED <<fsDirs, fsFiles, entryIdx>>
               [] OTHER ->
                    \* Extract raised before it wrote the file
                    /\ fsDirs' = made
                    /\ InitFailed(i, MsgZip)
                    /\ UNCHANGED <<fsFiles, entryIdx>>
    /\ UNCHANGED <<archive, now, tempDirectory, flagFiles, randomGenerator,
                   index, LabelFlagName, Picture, cleanup, clicks>>

----------------------------------------------------------------------------
(* The scan *)

\* the patterns of LoadFlagImages, in the order of its passes
Extensions == <<"png", "jpg", "jpeg", "bmp", "gif">>

\* case folding of the extensions that occur
LowerCase(x) ==
    CASE x = "PNG" -> "png"
      [] x = "JPG" -> "jpg"
      [] x = "GIF" -> "gif"
      [] OTHER -> x

\* the order in which the file system lists a set of files: some fixed order
FileOrder(S) ==
    CHOOSE q \in [1..Cardinality(S) -> S] :
        \A j, k \in 1..Cardinality(S) : j # k => q[j] # q[k]

\* GetFiles comparing the extension case-sensitively
GetFilesCaseSensitive(root, ext, files) ==
    FileOrder({f \in files : /\ IsUnder(f, Resolve(root))
                              /\ f[Len(f)].x = ext})

\* TDirectory::GetFiles(root, "*.ext", soAllDirectories)
GetFiles(root, ext, files) ==
    FileOrder({f \in files : /\ IsUnder(f, Resolve(root))
                              /\ LowerCase(f[Len(f)].x) = ext})

RECURSIVE Passes(_, _, _)
\* the files appended by the first n passes of the loop over the patterns
Passes(n, root, files) ==
    IF n = 0 THEN <<>>
    ELSE Passes(n - 1, root, files) \o GetFiles(root, Extensions[n], files)

\* LoadFlagImages; failAt = 0 when no pass raises, else the pass whose
\* GetFiles raises
LoadFlagImages(i) ==
    /\ pc[i] = "scan"
    /\ IF tempDirectory[i] = NoPath \/ ~DirExists(tempDirectory[i], fsDirs)
       THEN /\ flagFiles' = [flagFiles EXCEPT ![i] = <<>>]
            /\ UNCHANGED shown
       ELSE \E failAt \in 0..Len(Extensions) :
              IF failAt = 0
              THEN /\ flagFiles' = [flagFiles EXCEPT ![i] =
                                      Passes(Len(Extensions), tempDirectory[i], fsFiles)]
                   /\ UNCHANGED shown
              ELSE /\ flagFiles' = [flagFiles EXCEPT ![i] =
                                      Passes(failAt - 1, tempDirectory[i], fsFiles)]
                   /\ shown' = [shown EXCEPT ![i] = @ \cup {MsgScan}]
    /\ pc' = [pc EXCEPT ![i] = "report"]
    /\ UNCHANGED <<archive, now, fsDirs, fsFiles, tempDirectory,
                   randomGenerator, entryIdx, index, LabelStatus,
                   LabelFlagName, Picture, cleanup, clicks>>

----------------------------------------------------------------------------
(* Selection *)

\* DistRange with the upper limit size instead of size - 1
DistRangeOffByOne(size) == 0..size

\* the values uniform_int_distribution<int>(0, size - 1) can return
DistRange(size) == 0..(size - 1)

\* flagFiles[index]; reading past the end is undefined and yields no path
\* that can be loaded
At(files, idx) == IF idx \in 0..(Len(files) - 1) THEN files[idx + 1] ELSE NoPath

\* TPath::GetFileNameWithoutExtension
GetFileNameWithoutExtension(f) == IF f = NoPath THEN "" ELSE f[Len(f)].n

\* ShowRandomFlag without the check for an empty flagFiles
ShowRandomFlagUnguarded(i, st, fn, pic) ==
    \E idx \in 0..(IF Len(flagFiles[i]) = 0 THEN 0 ELSE Len(flagFiles[i]) - 1) :
        /\ randomGenerator' = [randomGenerator EXCEPT ![i].draws = @ + 1]
        /\ index' = [index EXCEPT ![i] = idx]
        /\ shown' = [shown EXCEPT ![i] = @ \cup {MsgImage}]
        /\ LabelFlagName' = [LabelFlagName EXCEPT ![i] = NameLoadFailed]
        /\ LabelStatus' = [LabelStatus EXCEPT ![i] = st]
        /\ Picture' = [Picture EXCEPT ![i] = pic]

\* ShowRandomFlag, entered with the captions st, fn and the picture pic
ShowRandomFlag(i, st, fn, pic) ==
    IF Len(flagFiles[i]) = 0
    THEN /\ LabelFlagName' = [LabelFlagName EXCEPT ![i] = NameNone]
         /\ LabelStatus' = [LabelStatus EXCEPT ![i] = st]
         /\ Picture' = [Picture EXCEPT ![i] = pic]
         /\ UNCHANGED <<randomGenerator, index, shown>>
    ELSE \E idx \in DistRange(Len(flagFiles[i])), decodes \in BOOLEAN :
           LET selectedFile == At(flagFiles[i], idx)
           IN  /\ randomGenerator' = [randomGenerator EXCEPT ![i].draws = @ + 1]
               /\ index' = [index EXCEPT ![i] = idx]
               /\ IF decodes /\ selectedFile \in fsFiles
                  THEN /\ Picture' = [Picture EXCEPT ![i] = selectedFile]
                       /\ LabelFlagName' = [LabelFlagName EXCEPT ![i] =
                              NameFlag(GetFileNameWithoutExtension(selectedFile))]
                       /\ LabelStatus' = [LabelStatus EXCEPT ![i] =
                              StatusDisplaying(idx + 1, Len(flagFiles[i]))]
                       /\ UNCHANGED shown
                  ELSE \* LoadFromFile raised
                       /\ shown' = [shown EXCEPT ![i] = @ \cup {MsgImage}]
                       /\ LabelFlagName' = [LabelFlagName EXCEPT ![i] = NameLoadFailed]
                       /\ LabelStatus' = [LabelStatus EXCEPT ![i] = st]
                       /\ Picture' = [Picture EXCEPT ![i] = pic]

\* Report treating an empty flagFiles like a failed extraction
ReportEmptyAsFailed(i) ==
    /\ pc[i] = "report"
    /\ IF Len(flagFiles[i]) > 0
       THEN ShowRandomFlag(i, StatusLoaded(Len(flagFiles[i])),
                           LabelFlagName[i], Picture[i])
       ELSE /\ LabelStatus' = [LabelStatus EXCEPT ![i] = StatusFailed]
            /\ UNCHANGED <<LabelFlagName, Picture, randomGenerator, index, shown>>
    /\ pc' = [pc EXCEPT ![i] = "running"]
    /\ UNCHANGED <<archive, now, fsDirs, fsFiles, tempDirectory, flagFiles,
                   entryIdx, cleanup, clicks>>

\* InitializeApplication after LoadFlagImages returned; the constructor
\* returns
Report(i) ==
    /\ pc[i] = "report"
    /\ IF Len(flagFiles[i]) > 0
       THEN ShowRandomFlag(i, StatusLoaded(Len(flagFiles[i])),
                           LabelFlagName[i], Picture[i])
       ELSE /\ LabelStatus' = [LabelStatus EXCEPT ![i] = StatusNoImages]
            /\ UNCHANGED <<LabelFlagName, Picture, randomGenerator, index, shown>>
    /\ pc' = [pc EXCEPT ![i] = "running"]
    /\ UNCHANGED <<archive, now, fsDirs, fsFiles, tempDirectory, flagFiles,
                   entryIdx, cleanup, clicks>>

\* CanDispatch for a message loop that still serves a destroyed form
CanDispatchDestroyed(i) == pc[i] \in {"running", "destroyed"}

\* the message loop dispatches events to a form that is constructed and not
\* destroyed
CanDispatch(i) == pc[i] = "running"

\* ButtonRandomClick starting the initialization again
ButtonRandomClickReinit(i) ==
    /\ CanDispatch(i)
    /\ Len(flagFiles[i]) > 0 => randomGenerator[i].draws + clicks[i] < MaxDraws
    /\ IF Len(flagFiles[i]) = 0
       THEN /\ pc' = [pc EXCEPT ![i] = "resource"]
            /\ LabelStatus' = [LabelStatus EXCEPT ![i] = StatusExtracting]
            /\ UNCHANGED <<LabelFlagName, Picture, randomGenerator, index, shown>>
       ELSE /\ ShowRandomFlag(i, StatusRefreshing, NameLoading, NoPath)
            /\ UNCHANGED pc
    /\ UNCHANGED <<archive, now, fsDirs, fsFiles, tempDirectory, flagFiles,
                   entryIdx, cleanup, clicks>>

\* ButtonRandomClick taking the first file off flagFiles
ButtonRandomClickRemoving(i) ==
    /\ CanDispatch(i)
    /\ Len(flagFiles[i]) > 0 => randomGenerator[i].draws + clicks[i] < MaxDraws
    /\ ShowRandomFlag(i, StatusRefreshing, NameLoading, NoPath)
    /\ flagFiles' = [flagFiles EXCEPT ![i] = IF Len(@) > 0 THEN Tail(@) ELSE @]
    /\ UNCHANGED <<archive, now, fsDirs, fsFiles, pc, tempDirectory, entryIdx,
                   cleanup, clicks>>

\* ButtonRandomClick during whose ProcessMessages no further click is
\* dispatched
ButtonRandomClick(i) ==
    /\ CanDispatch(i)
    /\ Len(flagFiles[i]) > 0 => randomGenerator[i].draws + clicks[i] < MaxDraws
    /\ ShowRandomFlag(i, StatusRefreshing, NameLoading, NoPath)
    /\ UNCHANGED <<archive, now, fsDirs, fsFiles, pc, tempDirectory, flagFiles,
                   entryIdx, cleanup, clicks>>

\* ButtonRandomClick up to Application->ProcessMessages(), which goes on to
\* dispatch a further click before it returns
ButtonRandomClickBegin(i) ==
    /\ CanDispatch(i)
    /\ clicks[i] < MaxNested
    /\ Len(flagFiles[i]) > 0 => randomGenerator[i].draws + clicks[i] < MaxDraws
    /\ Picture' = [Picture EXCEPT ![i] = NoPath]
    /\ LabelFlagName' = [LabelFlagName EXCEPT ![i] = NameLoading]
    /\ LabelStatus' = [LabelStatus EXCEPT ![i] = StatusRefreshing]
    /\ clicks' = [clicks EXCEPT ![i] = @ + 1]
    /\ UNCHANGED <<archive, now, fsDirs, fsFiles, pc, tempDirectory, flagFiles,
                   randomGenerator, entryIdx, index, shown, cleanup>>

\* ButtonRandomClick from the return of Application->ProcessMessages(): the
\* captions and the picture are what the clicks served meanwhile left
ButtonRandomClickEnd(i) ==
    /\ CanDispatch(i)
    /\ clicks[i] > 0
    /\ ShowRandomFlag(i, LabelStatus[i], LabelFlagName[i], Picture[i])
    /\ clicks' = [clicks EXCEPT ![i] = @ - 1]
    /\ UNCHANGED <<archive, now, fsDirs, fsFiles, pc, tempDirectory, flagFiles,
                   entryIdx, cleanup>>

----------------------------------------------------------------------------
(* Teardown *)

\* what a recursive delete of directory d that raised can leave behind: d
\* itself and any of its content, every kept path with its parents
Leftovers(d, dirs, files) ==
    { k \in SUBSET {p \in dirs \cup files : IsUnder(p, d)} :
        \A p \in k : \A a \in Prefixes(p) : IsUnder(a, d) => a \in k }

\* CleanupTempFiles with its condition negated
CleanupTempFilesInverted(td, dirs, files, raised, kept) ==
    [dirs |-> dirs, files |-> files,
     did |-> IF td # NoPath /\ DirExists(td, dirs) THEN "skipped" ELSE "swallowed"]

\* CleanupTempFiles calling TDirectory::Delete without looking whether the
\* directory exists: Delete raises on a missing directory
CleanupTempFilesUnchecked(td, dirs, files, raised, kept) ==
    IF td # NoPath /\ DirExists(td, dirs) /\ ~raised
    THEN [dirs |-> {p \in dirs : ~IsUnder(p, Resolve(td)) /\ p # Resolve(td)},
          files |-> {p \in files : ~IsUnder(p, Resolve(td))},
          did |-> "deleted"]
    ELSE [dirs |-> {p \in dirs : ~IsUnder(p, Resolve(td)) \/ p \in kept},
          files |-> {p \in files : ~IsUnder(p, Resolve(td)) \/ p \in kept},
          did |-> "swallowed"]

\* CleanupTempFiles on a file system; kept is {} when TDirectory::Delete
\* succeeds and else the content a raising Delete left under the directory
CleanupTempFiles(td, dirs, files, raised, kept) ==
    IF td # NoPath /\ DirExists(td, dirs)
    THEN IF raised
         THEN [dirs |-> {p \in dirs : ~IsUnder(p, Resolve(td)) \/ p \in kept},
               files |-> {p \in files : ~IsUnder(p, Resolve(td)) \/ p \in kept},
               did |-> "swallowed"]
         ELSE [dirs |-> {p \in dirs : ~IsUnder(p, Resolve(td)) /\ p # Resolve(td)},
               files |-> {p \in files : ~IsUnder(p, Resolve(td))},
               did |-> "deleted"]
    ELSE [dirs |-> dirs, files |-> files, did |-> "skipped"]

\* the destructor letting the exception of TDirectory::Delete escape: the
\* application's handler shows it
DestructorSurfacing(i) ==
    /\ CanDispatch(i)
    /\ clicks[i] = 0
    /\ \E raised \in BOOLEAN :
       \E kept \in (IF raised THEN Leftovers(Resolve(tempDirectory[i]), fsDirs, fsFiles)
                    ELSE {{}}) :
         LET r == CleanupTempFiles(tempDirectory[i], fsDirs, fsFiles, raised, kept)
         IN  /\ raised => r.did = "swallowed"
             /\ fsDirs' = r.dirs
             /\ fsFiles' = r.files
             /\ cleanup' = [cleanup EXCEPT ![i] = r.did]
             /\ shown' = [shown EXCEPT ![i] =
                            IF r.did = "swallowed" THEN @ \cup {"Error deleting directory"}
                            ELSE @]
    /\ pc' = [pc EXCEPT ![i] = "destroyed"]
    /\ UNCHANGED <<archive, now, tempDirectory, flagFiles, randomGenerator,
                   entryIdx, index, LabelStatus, LabelFlagName, Picture,
                   clicks>>

\* TForm1::~TForm1
Destructor(i) ==
    /\ CanDispatch(i)
    /\ clicks[i] = 0
    /\ \E raised \in BOOLEAN :
       \E kept \in (IF raised THEN Leftovers(Resolve(tempDirectory[i]), fsDirs, fsFiles)
                    ELSE {{}}) :
         LET r == CleanupTempFiles(tempDirectory[i], fsDirs, fsFiles, raised, kept)
         IN  /\ raised => r.did = "swallowed"
             /\ fsDirs' = r.dirs
             /\ fsFiles' = r.files
             /\ cleanup' = [cleanup EXCEPT ![i] = r.did]
    /\ pc' = [pc EXCEPT ![i] = "destroyed"]
    /\ UNCHANGED <<archive, now, tempDirectory, flagFiles, randomGenerator,
                   entryIdx, index, LabelStatus, LabelFlagName, Picture, shown,
                   clicks>>

----------------------------------------------------------------------------
Step(i) ==
    \/ Constructor(i)
    \/ ReadResource(i)
    \/ CreateWorkspace(i)
    \/ OpenZip(i)
    \/ ExtractEntry(i)
    \/ LoadFlagImages(i)
    \/ Report(i)
    \/ ButtonRandomClick(i)
    \/ ButtonRandomClickBegin(i)
    \/ ButtonRandomClickEnd(i)
    \/ Destructor(i)

Next == Tick \/ \E i \in Solo : Step(i)

Spec == Init /\ [][Next]_vars

\* two processes started from the same executable, whose archive holds the
\* file sub/flag2.jpg
ConcArchive ==
    << Entry(FALSE, <<Seg("sub", ""), Seg("flag2", "jpg")>>, FALSE) >>

InitConc == Init /\ archive = ConcArchive

NextConc == Tick \/ \E i \in Inst : Step(i)

SpecConc == InitConc /\ [][NextConc]_vars
----------------------------------------------------------------------------
(* Notions the properties share *)

\* the workspace directory of process i, as the file system sees it
Workspace(i) == Resolve(tempDirectory[i])

\* what the processes have put on disk
Written == (fsDirs \cup fsFiles) \ PreExisting

\* what lies on disk in or below the workspace of process i
InWorkspace(i) == {p \in Written : p = Workspace(i) \/ IsUnder(p, Workspace(i))}

HasUnsafeEntry == \E k \in 1..Len(archive) : Unsafe(archive[k])

\* the path, relative to the workspace, at which entry e belongs
Destination(i, e) == tempDirectory[i] \o e.segs

\* ExtractResourceAsZip has returned true
Extracted(i) == pc[i] = "scan"

\* the constructor has returned with the caption of a failed extraction
InitFailedState(i) == pc[i] = "running" /\ LabelStatus[i] = StatusFailed

----------------------------------------------------------------------------
(* C1: an archive with an entry that escapes the destination (a ".."       *)
(* segment or an absolute path) never extracts successfully, and nothing   *)
(* is ever written outside the workspace directory.                        *)
C1_UnsafeEntryRejected ==
    \A i \in Inst :
        HasUnsafeEntry =>
            /\ ~Extracted(i)
            /\ Written \subseteq InWorkspace(i)

(* C2: after a successful extraction of an archive without unsafe entries, *)
(* every entry lies at workspace/<its relative path>, and the workspace    *)
(* holds nothing but the entries and the directories leading to them.      *)
C2_EntriesAtRelativePaths ==
    \A i \in Inst :
        (Extracted(i) /\ ~HasUnsafeEntry) =>
            LET entries == {archive[k] : k \in 1..Len(archive)}
                fileDest == {Destination(i, e) : e \in {x \in entries : ~x.isDir}}
                dirDest == {Destination(i, e) : e \in {x \in entries : x.isDir}}
                parents == UNION {Prefixes(GetDirectoryName(p, FALSE)) : p \in fileDest}
            IN  /\ {f \in fsFiles : IsUnder(f, Workspace(i))} = fileDest
                /\ dirDest \subseteq fsDirs
                /\ {d \in fsDirs : IsUnder(d, Workspace(i))}
                       \subseteq dirDest \cup parents

(* C3: once initialization has finished in the failed state, the workspace *)
(* directory no longer exists.                                             *)
C3_FailedInitDestroysWorkspace ==
    \A i \in Inst :
        (InitFailedState(i) /\ tempDirectory[i] # NoPath) =>
            ~DirExists(tempDirectory[i], fsDirs)

(* C4: the destructor can run in every state the constructor leaves behind *)
(* (ready, failed, empty catalog) and always runs CleanupTempFiles; unless *)
(* the recursive delete raised, the workspace directory and everything in  *)
(* it are gone afterwards.                                                 *)
C4_ShutdownRemovesWorkspace ==
    \A i \in Solo :
        /\ (pc[i] = "running" /\ clicks[i] = 0) => ENABLED Destructor(i)
        /\ pc[i] = "destroyed" => cleanup[i] # "none"
        /\ (pc[i] = "destroyed" /\ cleanup[i] # "swallowed") => InWorkspace(i) = {}

\* a destroyed form whose extracted workspace was deleted
C4_Witness ==
    /\ pc[1] = "destroyed"
    /\ cleanup[1] = "deleted"
    /\ Len(flagFiles[1]) > 0

(* C5: CleanupTempFiles is a no-op when tempDirectory is empty or the      *)
(* directory is missing (never created, or already deleted): nothing on    *)
(* disk changes and TDirectory::Delete is not called, so nothing is raised.*)
C5_CleanupIdempotent ==
    \A i \in Inst : \A raised \in BOOLEAN :
        (tempDirectory[i] = NoPath \/ ~DirExists(tempDirectory[i], fsDirs)) =>
            LET r == CleanupTempFiles(tempDirectory[i], fsDirs, fsFiles, raised, {})
            IN  /\ r.dirs = fsDirs
                /\ r.files = fsFiles
                /\ r.did = "skipped"

\* the state after a successful destroy, in which a second call is a no-op
C5_Witness ==
    /\ pc[1] = "destroyed"
    /\ cleanup[1] = "deleted"
    /\ tempDirectory[1] # NoPath
    /\ ~DirExists(tempDirectory[1], fsDirs)

(* C6: every index drawn lies in 0..N-1 for the catalog length N; a draw   *)
(* whose image loaded shows position index+1 in 1..N and total N, and the  *)
(* picture loaded is flagFiles[index]; whenever a position is displayed,   *)
(* it lies in 1..N and the picture is the file at that position.           *)
C6_SelectionInRange ==
    [][\A i \in Inst :
          LET N == Len(flagFiles'[i])
          IN  /\ index'[i] # -1 => index'[i] \in 0..(N - 1)
              /\ LabelStatus'[i].k = "Status: Displaying" =>
                     /\ LabelStatus'[i].total = N
                     /\ LabelStatus'[i].pos \in 1..N
                     /\ Picture'[i] = flagFiles'[i][LabelStatus'[i].pos]
              /\ (randomGenerator'[i].draws = randomGenerator[i].draws + 1
                    /\ LabelFlagName'[i] # NameLoadFailed) =>
                     /\ LabelStatus'[i] = StatusDisplaying(index'[i] + 1, N)
                     /\ Picture'[i] = flagFiles'[i][index'[i] + 1]
                     /\ LabelFlagName'[i] =
                            NameFlag(GetFileNameWithoutExtension(Picture'[i]))]_vars

\* the second of two flags is displayed
C6_Witness ==
    /\ LabelStatus[1] = StatusDisplaying(2, 2)
    /\ Len(flagFiles[1]) = 2
    /\ index[1] = 1

(* C7: a click with an empty flagFiles ends with the caption "No flag      *)
(* images available": the generator is not advanced, no index is drawn and *)
(* no picture is loaded.                                                   *)
C7_EmptyCatalogPick ==
    [][\A i \in Inst :
          ((ButtonRandomClick(i) \/ ButtonRandomClickEnd(i))
             /\ Len(flagFiles[i]) = 0) =>
              /\ randomGenerator'[i] = randomGenerator[i]
              /\ index'[i] = index[i]
              /\ Picture'[i] = NoPath
              /\ shown'[i] = shown[i]
              /\ LabelFlagName'[i] = NameNone]_vars

\* a click was served with an empty catalog
C7_Witness ==
    /\ pc[1] = "running"
    /\ flagFiles[1] = <<>>
    /\ LabelFlagName[1] = NameNone
    /\ LabelStatus[1] = StatusRefreshing

Live(i) == pc[i] \notin {"new", "destroyed"}

(* C9: two live processes never have the same workspace directory.         *)
C9_DistinctWorkspaces ==
    \A i, j \in Inst :
        (i # j /\ Live(i) /\ Live(j) /\ tempDirectory[i] # NoPath) =>
            tempDirectory[i] # tempDirectory[j]

\* the messages of the initialization steps
InitMessages ==
    {MsgNoResource, MsgLoadResource, MsgInvalidResource, MsgMkdir, MsgTempPath,
     MsgZip, MsgScan}

(* C10: when a step of the initialization failed, the constructor returns  *)
(* in the failed state (never with a catalog to display), the failing      *)
(* step's message having been shown.                                       *)
C10_FailedStepEndsFailed ==
    [][\A i \in Inst :
          (pc[i] # "running" /\ pc'[i] = "running"
             /\ shown'[i] \cap InitMessages # {}) =>
              LabelStatus'[i] = StatusFailed]_vars

\* the messages with which ExtractResourceAsZip returns false
ExtractionMessages ==
    {MsgNoResource, MsgLoadResource, MsgInvalidResource, MsgMkdir, MsgTempPath,
     MsgZip}

IsImageExtension(x) == LowerCase(x) \in {"png", "jpg", "jpeg", "bmp", "gif"}

\* the extraction of process i succeeded and its scan ended without
\* GetFiles raising
Scanned(i) ==
    /\ pc[i] \in {"report", "running"}
    /\ shown[i] \cap (ExtractionMessages \cup {MsgScan}) = {}

C13_CleanupErrorsSwallowed ==
    [][\A i \in Inst :
          (pc[i] = "running" /\ pc'[i] # "running") =>
              /\ pc'[i] = "destroyed"
              /\ cleanup'[i] \in {"skipped", "deleted", "swallowed"}
              /\ shown'[i] = shown[i]
              /\ LabelStatus'[i] = LabelStatus[i]
              /\ LabelFlagName'[i] = LabelFlagName[i]]_vars

\* the delete raised and left the workspace behind; the form is destroyed
C13_Witness ==
    /\ pc[1] = "destroyed"
    /\ cleanup[1] = "swallowed"
    /\ fsFiles # {}
    /\ DirExists(tempDirectory[1], fsDirs)

\* the messages of a resource that cannot be found, loaded or locked, or
\* is empty
ResourceMessages == {MsgNoResource, MsgLoadResource, MsgInvalidResource}

(* C14: when reading the resource failed, no workspace directory is        *)
(* created, tempDirectory stays empty, neither the extraction nor the scan *)
(* runs, and flagFiles stays empty.                                        *)
C14_ResourceFailureNoEffects ==
    \A i \in Solo :
        shown[i] \cap ResourceMessages # {} =>
            /\ pc[i] \in {"running", "destroyed"}
            /\ tempDirectory[i] = NoPath
            /\ Written = {}
            /\ entryIdx[i] = 1
            /\ flagFiles[i] = <<>>
            /\ shown[i] \cap {MsgMkdir, MsgTempPath, MsgZip, MsgScan} = {}

\* the resource had size zero
C14_Witness ==
    /\ pc[1] = "running"
    /\ MsgInvalidResource \in shown[1]
    /\ LabelStatus[1] = StatusFailed
    /\ Len(archive) > 0

\* the positions of a form's life, in the order the code reaches them
Positions ==
    <<"new", "resource", "mkdir", "open", "extract", "scan", "report",
      "running", "destroyed">>

Rank(p) == CHOOSE k \in 1..Len(Positions) : Positions[k] = p

(* C15: the steps of the initialization are never started again: a form    *)
(* never moves back to an earlier position nor to an earlier entry of the  *)
(* archive, and once the constructor has returned no click, nested in      *)
(* another click's ProcessMessages or not, changes tempDirectory,          *)
(* flagFiles or the seed, or writes anything to disk.                      *)
C15_InitializationRunsOnce ==
    [][\A i \in Solo :
          /\ Rank(pc'[i]) >= Rank(pc[i])
          /\ entryIdx'[i] >= entryIdx[i]
          /\ pc[i] \in {"running", "destroyed"} =>
                 /\ tempDirectory'[i] = tempDirectory[i]
                 /\ flagFiles'[i] = flagFiles[i]
                 /\ entryIdx'[i] = entryIdx[i]
                 /\ randomGenerator'[i].seed = randomGenerator[i].seed
                 /\ fsDirs' \subseteq fsDirs
                 /\ fsFiles' \subseteq fsFiles]_vars

\* a click dispatched while another click waits in ProcessMessages has
\* displayed a flag
C15_Witness ==
    /\ pc[1] = "running"
    /\ clicks[1] = 1
    /\ LabelStatus[1].k = "Status: Displaying"
    /\ randomGenerator[1].draws >= 2

\* the steps between two positions of the initialization
InitOrder ==
    {<<"new", "resource">>, <<"resource", "mkdir">>, <<"mkdir", "open">>,
     <<"open", "extract">>, <<"open", "scan">>, <<"extract", "scan">>,
     <<"scan", "report">>, <<"report", "running">>}

\* randomGenerator.seed was called
Seeded(i) == randomGenerator[i] # [seed |-> 5489, draws |-> 0]

(* C16, as claimed: the generator is seeded only after the scan has        *)
(* completed.                                                              *)
C16_SeededAfterScan ==
    \A i \in Inst : Seeded(i) => pc[i] \in {"report", "running", "destroyed"}

(* C16, amended: the generator is seeded first, by the constructor, with   *)
(* the tick count, before the resource is read; then resource read,        *)
(* workspace creation, extraction and scan follow in this order, a failing *)
(* step ending the initialization; afterwards the seed never changes and   *)
(* the number of draws never falls back.                                   *)
C16_SeededFirstAndOnce ==
    [][\A i \in Inst :
          /\ (pc[i] = "new" /\ pc'[i] # "new") =>
                 randomGenerator'[i] = [seed |-> now, draws |-> 0]
          /\ pc[i] # "new" =>
                 /\ randomGenerator'[i].seed = randomGenerator[i].seed
                 /\ randomGenerator'[i].draws >= randomGenerator[i].draws
          /\ (pc'[i] # pc[i] /\ Rank(pc'[i]) < Rank("running")) =>
                 <<pc[i], pc'[i]>> \in InitOrder
          /\ (pc'[i] # pc[i] /\ pc'[i] = "running") =>
                 /\ Rank(pc[i]) < Rank("running")
                 /\ pc[i] # "new"]_vars

\* a form seeded at tick 1 has drawn twice since
C16_Witness ==
    /\ pc[1] = "running"
    /\ randomGenerator[1].seed = 1
    /\ randomGenerator[1].draws >= 2

(* C17: a click leaves flagFiles, tempDirectory and the file system as     *)
(* they are, whether it displays a flag, finds flagFiles empty or fails to *)
(* load the image; the generator keeps its seed and makes one draw, and    *)
(* only when flagFiles is not empty.                                       *)
C17_PickLeavesCatalogAndWorkspace ==
    [][\A i \in Solo :
          (pc[i] = "running" /\ pc'[i] = "running") =>
              /\ flagFiles'[i] = flagFiles[i]
              /\ tempDirectory'[i] = tempDirectory[i]
              /\ fsDirs' = fsDirs
              /\ fsFiles' = fsFiles
              /\ randomGenerator'[i].seed = randomGenerator[i].seed
              /\ \/ randomGenerator'[i].draws = randomGenerator[i].draws
                 \/ /\ randomGenerator'[i].draws = randomGenerator[i].draws + 1
                    /\ Len(flagFiles[i]) > 0
              /\ ((ButtonRandomClick(i) \/ ButtonRandomClickEnd(i))
                    /\ Len(flagFiles[i]) > 0) =>
                     randomGenerator'[i].draws = randomGenerator[i].draws + 1]_vars

\* after a click that failed to load its image and one that displayed a
\* flag, the catalog and its files are still there
C17_Witness ==
    /\ pc[1] = "running"
    /\ MsgImage \in shown[1]
    /\ LabelStatus[1].k = "Status: Displaying"
    /\ randomGenerator[1].draws >= 3
    /\ Len(flagFiles[1]) > 0
    /\ \A k \in 1..Len(flagFiles[1]) : flagFiles[1][k] \in fsFiles
====
